---- MODULE Spec2Model ----
(***************************************************************************)
(* Model of src/start_testbuilds.py: the script that decides, for one      *)
(* build, which CodeBuild test jobs to start, and starts them.             *)
(*                                                                         *)
(* Python strings are TLA+ strings; `x in s` is substring search and      *)
(* " ".join is concatenation, both computed character by character.        *)
(* Python's None is the string None_.  A raised exception is the value of  *)
(* exc; "none" means no exception is propagating.                          *)
(***************************************************************************)
EXTENDS Integers, Sequences, FiniteSets, TLC

VARIABLES
    build_context,   \* os.getenv("BUILD_CONTEXT")
    env,             \* the other environment variables the script reads
    config,          \* what the config module answers during this run
    test_env_file,   \* the file at constants.TEST_ENV_PATH: [exists, content]
    test_env_file_at_start,  \* the same file as the run found it
    test_images,     \* the JSON object at constants.TEST_TYPE_IMAGES_PATH, in file order
    pc,              \* where main() is: "start", "loop", "done", "failed"
    idx,             \* position of the for loop of main() in test_images
    calls,           \* the start_build calls made so far, in order
    exc,             \* the exception that ended the run, or "none"
    accessed,        \* TRUE once the run has touched TEST_ENV_PATH (exists/open/write)
    ret              \* result of a direct call of is_test_job_implemented_for_framework

vars == <<build_context, env, config, test_env_file, test_env_file_at_start,
          test_images, pc, idx, calls, exc, accessed, ret>>

-----------------------------------------------------------------------------
(* Bounds and input pools *)

\* at most this many entries in the test-type image map of a whole-program run
MaxTypes == 2

\* at most this many images per test type in the single-entry runs
MaxImages == 2

None_ == "<None>"

\* constants.py (not among the sources): the test-type names
SAGEMAKER_REMOTE_TESTS == "sagemaker"
SAGEMAKER_EFA_TESTS == "sagemaker-efa"
SAGEMAKER_RC_TESTS == "sagemaker-rc"
SAGEMAKER_BENCHMARK_TESTS == "sagemaker-benchmark"
EC2_TESTS == "ec2"
EC2_BENCHMARK_TESTS == "ec2-benchmark"
ECS_TESTS == "ecs"
EKS_TESTS == "eks"
SANITY_TESTS == "sanity"
SECURITY_TESTS == "security"

\* the test types is_test_job_enabled knows, each with the config flag it asks for
FlagOfTest ==
    [t \in {SAGEMAKER_REMOTE_TESTS, SAGEMAKER_EFA_TESTS, SAGEMAKER_RC_TESTS,
            SAGEMAKER_BENCHMARK_TESTS, EC2_TESTS, EC2_BENCHMARK_TESTS, ECS_TESTS,
            EKS_TESTS, SANITY_TESTS, SECURITY_TESTS} |->
        CASE t = SAGEMAKER_REMOTE_TESTS -> "sm_remote_test"
          [] t = SAGEMAKER_EFA_TESTS -> "sm_efa_test"
          [] t = SAGEMAKER_RC_TESTS -> "sm_rc_test"
          [] t = SAGEMAKER_BENCHMARK_TESTS -> "sm_benchmark_test"
          [] t = EC2_TESTS -> "ec2_test"
          [] t = EC2_BENCHMARK_TESTS -> "ec2_benchmark_test"
          [] t = ECS_TESTS -> "ecs_test"
          [] t = EKS_TESTS -> "eks_test"
          [] t = SANITY_TESTS -> "sanity_test"
          [] t = SECURITY_TESTS -> "security_test"]

KnownTestTypes == DOMAIN FlagOfTest

\* keys of the map in the whole-program runs, and in the single-entry runs
RunTestTypes == {EC2_TESTS, SANITY_TESTS, SAGEMAKER_REMOTE_TESTS, "autopr"}
AllTestTypes == KnownTestTypes \cup {"autopr", "sagemaker-local", "telemetry"}

\* image lists of the whole-program runs
RunImageLists ==
    { <<>>,
      <<"huggingface-training:1.0">>,
      <<"pytorch-training:2.0", "pytorch-inference:2.0">> }

\* image identifiers of the single-entry runs
ImagePool ==
    { "pytorch-training", "huggingface-pytorch-training",
      "huggingface-pytorch-trcomp-training", "pytorch-trcomp-training",
      "autogluon-training", "pytorch-inference-graviton", "pytorch-inference-arm64" }

SeqsUpTo(S, n) == UNION { [1..k -> S] : k \in 0..n }

Keys(m) == { m[i].test_type : i \in 1..Len(m) }

\* JSON objects as Python loads them: ordered, keys distinct
MapsOver(types, lists, n) ==
    { m \in SeqsUpTo([test_type : types, images : lists], n) :
        Cardinality(Keys(m)) = Len(m) }

\* the config flags that some key of m makes main() ask for
FlagsAskedFor(m) ==
    { FlagOfTest[t] : t \in Keys(m) \cap KnownTestTypes }
        \cup (IF "sagemaker" \in Keys(m) THEN {"sm_local_test"} ELSE {})
        \cup (IF "autopr" \in Keys(m) THEN {"autopatch_build"} ELSE {})

BuilderFlags == {"general_builder", "graviton_builder", "arm64_builder"}

EnvEntry(name, value) == [name |-> name, value |-> value, type |-> "PLAINTEXT"]

\* contents the base environment-override file may have before the run
BaseFiles ==
    { [exists |-> FALSE, content |-> <<>>],
      [exists |-> TRUE, content |-> <<>>],
      [exists |-> TRUE, content |-> <<EnvEntry("TEST_TRIGGER", "dlc-pr-pytorch-training")>>],
      [exists |-> TRUE, content |-> <<EnvEntry("TEST_TRIGGER", "dlc-pr-pytorch-training"),
                                      EnvEntry("DLC_IMAGES", "stale-image:0.1")>>] }

TheEnv ==
    [ FRAMEWORK |-> "pytorch",
      IMAGE_TYPE |-> "training",
      PR_NUMBER |-> "4242",
      CODEBUILD_RESOLVED_SOURCE_VERSION |-> "0a1b2c3",
      FRAMEWORK_BUILDSPEC_FILE |-> "pytorch/training/buildspec.yml",
      CODEBUILD_PROJECT_NAME |-> "dlc-pr-pytorch-training" ]

ConfigWith(flags) ==
    [ flags |-> flags,
      sagemaker_remote_efa_instance_type |-> "ml.p4d.24xlarge",
      ipv6_vpc_name |-> "dlc-ipv6-vpc",
      buildspec_override |-> "" ]

-----------------------------------------------------------------------------
(* Helpers *)

\* Python: w in s
Contains(w, s) ==
    \E i \in 1..(Len(s) - Len(w) + 1) : SubSeq(s, i, i + Len(w) - 1) = w

\* Python: " ".join(images)
RECURSIVE Join(_)
Join(images) ==
    IF Len(images) = 0 THEN ""
    ELSE IF Len(images) = 1 THEN images[1]
    ELSE images[1] \o " " \o Join(Tail(images))

\* Python: str(b) of a bool
Str(b) == IF b THEN "True" ELSE "False"

\* Python: a or b, of strings
Or(a, b) == IF a # "" /\ a # None_ THEN a ELSE b

\* config.is_<flag>_enabled()
Flag(f) == f \in config.flags

-----------------------------------------------------------------------------
(* run_test_job *)

\* the entries run_test_job appends to what it loaded from the file
BaselineEntries(codebuild_project, images_str) ==
    LET are_heavy_instance_ec2_tests_enabled ==
            Flag("heavy_instance_ec2_tests") /\ Contains("ec2", codebuild_project)
        is_ipv6_test_enabled == Flag("ipv6_test") /\ Contains("ec2", codebuild_project)
    IN  << EnvEntry("FRAMEWORK", env.FRAMEWORK),
           EnvEntry("IMAGE_TYPE", env.IMAGE_TYPE),
           EnvEntry("DLC_IMAGES", images_str),
           EnvEntry("PR_NUMBER", env.PR_NUMBER),
           EnvEntry("NIGHTLY_PR_TEST_MODE", Str(Flag("nightly_pr_test_mode"))),
           EnvEntry("USE_SCHEDULER", Str(Flag("scheduler"))),
           EnvEntry("SM_EFA_TEST_INSTANCE_TYPE", config.sagemaker_remote_efa_instance_type),
           EnvEntry("IPV6_VPC_NAME", config.ipv6_vpc_name),
           EnvEntry("HEAVY_INSTANCE_EC2_TESTS_ENABLED",
                    Str(are_heavy_instance_ec2_tests_enabled)),
           EnvEntry("ENABLE_IPV6_TESTING", Str(is_ipv6_test_enabled)),
           EnvEntry("FRAMEWORK_BUILDSPEC_FILE",
                    Or(config.buildspec_override, env.FRAMEWORK_BUILDSPEC_FILE)) >>

\* variant: DLC_IMAGES is left out when there are no images to name
EnvOverrides_OmitsEmptyImages(loaded, codebuild_project, images_str) ==
    LET NotImages(e) == e.name # "DLC_IMAGES"
        baseline == BaselineEntries(codebuild_project, images_str)
    IN  (IF Flag("deep_canary_mode")
            THEN Append(loaded, EnvEntry("DEEP_CANARY_MODE", "true"))
            ELSE loaded)
        \o (IF images_str = "" THEN SelectSeq(baseline, NotImages) ELSE baseline)

\* env_overrides as start_build receives it: the file's entries, DEEP_CANARY_MODE in
\* deep-canary mode, then the baseline entries
EnvOverrides(loaded, codebuild_project, images_str) ==
    (IF Flag("deep_canary_mode")
        THEN Append(loaded, EnvEntry("DEEP_CANARY_MODE", "true"))
        ELSE loaded)
    \o BaselineEntries(codebuild_project, images_str)

NewCall(file, commit, codebuild_project, images_str, ok, site, iter) ==
    [ projectName |-> codebuild_project,
      environmentVariablesOverride |->
          EnvOverrides(file.content, codebuild_project, images_str),
      sourceVersion |-> commit,
      ok |-> ok,
      site |-> site,
      iter |-> iter ]

\* variant: a missing file counts as a file without entries
run_test_job_MissingFileIsEmpty(st, file, commit, codebuild_project, images_str, ok, site, iter) ==
    [ calls |-> Append(st.calls, NewCall(file, commit, codebuild_project, images_str, ok,
                                         site, iter)),
      exc |-> IF ok THEN "none" ELSE "ClientError",
      accessed |-> TRUE ]

\* variant: the error of start_build is caught and the run goes on
run_test_job_CatchesClientError(st, file, commit, codebuild_project, images_str, ok, site, iter) ==
    IF ~file.exists
    THEN [st EXCEPT !.exc = "FileNotFoundError", !.accessed = TRUE]
    ELSE [ calls |-> Append(st.calls, NewCall(file, commit, codebuild_project, images_str,
                                              ok, site, iter)),
           exc |-> "none",
           accessed |-> TRUE ]

\* One call of run_test_job from the call site at source line `site`, in loop
\* iteration `iter` (0 outside the loop), on the run's state st = [calls, exc,
\* accessed] and the file as it is at the call.  ok: whether start_build succeeds.
run_test_job(st, file, commit, codebuild_project, images_str, ok, site, iter) ==
    IF ~file.exists
    THEN [st EXCEPT !.exc = "FileNotFoundError", !.accessed = TRUE]
    ELSE [ calls |-> Append(st.calls, NewCall(file, commit, codebuild_project, images_str,
                                              ok, site, iter)),
           exc |-> IF ok THEN "none" ELSE "ClientError",
           accessed |-> TRUE ]

-----------------------------------------------------------------------------
(* the two predicates *)

\* variant: the ec2 job does not ask for its flag
is_test_job_enabled_Ec2Unflagged(test_type) ==
    IF test_type = EC2_TESTS THEN TRUE
    ELSE test_type \in KnownTestTypes /\ Flag(FlagOfTest[test_type])

is_test_job_enabled(test_type) ==
    IF test_type = SAGEMAKER_REMOTE_TESTS /\ Flag("sm_remote_test") THEN TRUE
    ELSE IF test_type = SAGEMAKER_EFA_TESTS /\ Flag("sm_efa_test") THEN TRUE
    ELSE IF test_type = SAGEMAKER_RC_TESTS /\ Flag("sm_rc_test") THEN TRUE
    ELSE IF test_type = SAGEMAKER_BENCHMARK_TESTS /\ Flag("sm_benchmark_test") THEN TRUE
    ELSE IF test_type = EC2_TESTS /\ Flag("ec2_test") THEN TRUE
    ELSE IF test_type = EC2_BENCHMARK_TESTS /\ Flag("ec2_benchmark_test") THEN TRUE
    ELSE IF test_type = ECS_TESTS /\ Flag("ecs_test") THEN TRUE
    ELSE IF test_type = EKS_TESTS /\ Flag("eks_test") THEN TRUE
    ELSE IF test_type = SANITY_TESTS /\ Flag("sanity_test") THEN TRUE
    ELSE IF test_type = SECURITY_TESTS /\ Flag("security_test") THEN TRUE
    ELSE FALSE

\* variant: a huggingface trcomp image is classified as a huggingface image too
is_test_job_implemented_for_framework_NoElse(images_str, test_type) ==
    LET hf == Contains("huggingface", images_str)
        tc == Contains("trcomp", images_str)
        is_huggingface_trcomp_image == hf /\ tc
        is_huggingface_image == hf
        is_trcomp_image == ~hf /\ tc
        is_autogluon_image == Contains("autogluon", images_str)
    IN  IF (is_huggingface_image \/ is_autogluon_image)
           /\ test_type \in {EC2_TESTS, EC2_BENCHMARK_TESTS, ECS_TESTS, EKS_TESTS}
        THEN FALSE
        ELSE IF is_huggingface_trcomp_image
                /\ test_type \in {ECS_TESTS, EKS_TESTS, EC2_BENCHMARK_TESTS}
        THEN FALSE
        ELSE IF is_trcomp_image /\ test_type \in {EKS_TESTS, EC2_BENCHMARK_TESTS}
        THEN FALSE
        ELSE TRUE

is_test_job_implemented_for_framework(images_str, test_type) ==
    LET hf == Contains("huggingface", images_str)
        tc == Contains("trcomp", images_str)
        is_huggingface_trcomp_image == hf /\ tc
        is_huggingface_image == hf /\ ~tc
        is_trcomp_image == ~hf /\ tc
        is_autogluon_image == Contains("autogluon", images_str)
    IN  IF (is_huggingface_image \/ is_autogluon_image)
           /\ test_type \in {EC2_TESTS, EC2_BENCHMARK_TESTS, ECS_TESTS, EKS_TESTS}
        THEN FALSE
        ELSE IF is_huggingface_trcomp_image
                /\ test_type \in {ECS_TESTS, EKS_TESTS, EC2_BENCHMARK_TESTS}
        THEN FALSE
        ELSE IF is_trcomp_image /\ test_type \in {EKS_TESTS, EC2_BENCHMARK_TESTS}
        THEN FALSE
        ELSE TRUE

-----------------------------------------------------------------------------
(* run_deep_canary_pr_testbuilds *)

get_codebuild_project_name == env.CODEBUILD_PROJECT_NAME

\* variant: arm64 is asked before graviton
DeepCanaryJob_Arm64First ==
    LET pr_test_job == "dlc-pr-" \o "deep-canary" \o "-test"
    IN  IF Flag("arm64_builder") THEN pr_test_job \o "-arm64"
        ELSE IF Flag("graviton_builder") THEN pr_test_job \o "-graviton"
        ELSE pr_test_job

\* the job name the deep-canary path chooses
DeepCanaryJob ==
    LET pr_test_job == "dlc-pr-" \o "deep-canary" \o "-test"
    IN  IF Flag("graviton_builder") THEN pr_test_job \o "-graviton"
        ELSE IF Flag("arm64_builder") THEN pr_test_job \o "-arm64"
        ELSE pr_test_job

\* whether run_deep_canary_pr_testbuilds dispatches at all
DeepCanaryEligible ==
    Flag("deep_canary_mode")
        /\ (Flag("general_builder") \/ Flag("graviton_builder") \/ Flag("arm64_builder"))

\* what utils.write_to_json_file leaves at TEST_ENV_PATH
DeepCanaryFile ==
    [ exists |-> TRUE,
      content |-> <<EnvEntry("TEST_TRIGGER", get_codebuild_project_name)>> ]

\* variant: TEST_ENV_PATH is not written before the dispatch
run_deep_canary_pr_testbuilds_NoWrite(st, file, ok) ==
    IF DeepCanaryEligible
    THEN [ st |-> run_test_job(st, file, env.CODEBUILD_RESOLVED_SOURCE_VERSION,
                               DeepCanaryJob, "", ok, 235, 0),
           file |-> file ]
    ELSE [ st |-> st, file |-> file ]

\* the whole function: the run's state and the file after it
run_deep_canary_pr_testbuilds(st, file, ok) ==
    IF DeepCanaryEligible
    THEN [ st |-> run_test_job([st EXCEPT !.accessed = TRUE], DeepCanaryFile,
                               env.CODEBUILD_RESOLVED_SOURCE_VERSION, DeepCanaryJob, "",
                               ok, 235, 0),
           file |-> DeepCanaryFile ]
    ELSE [ st |-> st, file |-> file ]

-----------------------------------------------------------------------------
(* main *)

\* variant: arm64 is looked for before graviton
PrTestJob_Arm64First(test_type, images_str) ==
    LET pr_test_job == "dlc-pr-" \o test_type \o "-test"
    IN  IF test_type = SANITY_TESTS \/ test_type = SECURITY_TESTS
        THEN IF Contains("arm64", images_str) THEN pr_test_job \o "-arm64"
             ELSE IF Contains("graviton", images_str) THEN pr_test_job \o "-graviton"
             ELSE pr_test_job
        ELSE pr_test_job

\* the job name of the main test job of a test type
PrTestJob(test_type, images_str) ==
    LET pr_test_job == "dlc-pr-" \o test_type \o "-test"
    IN  IF test_type = SANITY_TESTS \/ test_type = SECURITY_TESTS
        THEN IF Contains("graviton", images_str) THEN pr_test_job \o "-graviton"
             ELSE IF Contains("arm64", images_str) THEN pr_test_job \o "-arm64"
             ELSE pr_test_job
        ELSE pr_test_job

\* a statement `if cond: run_test_job(...)` of the loop body: skipped when an
\* exception is already propagating
IfRun(st, cond, file, codebuild_project, images_str, ok, site, iter) ==
    IF st.exc # "none" THEN st
    ELSE IF cond
    THEN run_test_job(st, file, env.CODEBUILD_RESOLVED_SOURCE_VERSION, codebuild_project,
                      images_str, ok, site, iter)
    ELSE st

\* variant: the additional jobs sit inside the `if` of the main job
LoopIteration_AdditionalJobsNested(st, file, iter, oks) ==
    LET test_type == test_images[iter].test_type
        images == test_images[iter].images
        images_str == Join(images)
        eligible == is_test_job_enabled(test_type)
                        /\ is_test_job_implemented_for_framework(images_str, test_type)
        s1 == IfRun(st, eligible,
                    file, PrTestJob(test_type, images_str), images_str, oks[1], 276, iter)
        s2 == IfRun(s1, eligible /\ test_type = "autopr" /\ Flag("autopatch_build"),
                    file, "dlc-pr-" \o test_type, images_str, oks[2], 282, iter)
        s3 == IfRun(s2, eligible /\ test_type = "sagemaker" /\ Flag("sm_local_test"),
                    file, "dlc-pr-" \o test_type \o "-local-test", images_str, oks[2],
                    287, iter)
    IN  IF Len(images) # 0 THEN s3 ELSE st

\* one iteration of the for loop of main(), on the entry at position iter;
\* oks[1]: whether the main job's start_build succeeds, oks[2]: the additional job's
\* (no test type is both "autopr" and "sagemaker", so at most one of them is called)
LoopIteration(st, file, iter, oks) ==
    LET test_type == test_images[iter].test_type
        images == test_images[iter].images
        images_str == Join(images)
        s1 == IfRun(st,
                    is_test_job_enabled(test_type)
                        /\ is_test_job_implemented_for_framework(images_str, test_type),
                    file, PrTestJob(test_type, images_str), images_str, oks[1], 276, iter)
        s2 == IfRun(s1, test_type = "autopr" /\ Flag("autopatch_build"),
                    file, "dlc-pr-" \o test_type, images_str, oks[2], 282, iter)
        s3 == IfRun(s2, test_type = "sagemaker" /\ Flag("sm_local_test"),
                    file, "dlc-pr-" \o test_type \o "-local-test", images_str, oks[2],
                    287, iter)
    IN  IF Len(images) # 0 THEN s3 ELSE st

RunState == [calls |-> calls, exc |-> exc, accessed |-> accessed]

\* variant: main() does not return when BUILD_CONTEXT is not "PR"
MainNotPR_NoReturn ==
    /\ pc = "start"
    /\ build_context # "PR"
    /\ idx' = 1
    /\ pc' = IF Len(test_images) = 0 THEN "done" ELSE "loop"
    /\ UNCHANGED <<build_context, env, config, test_env_file, test_env_file_at_start,
                   test_images, calls, exc, accessed, ret>>

\* main(): BUILD_CONTEXT is not "PR"
MainNotPR ==
    /\ pc = "start"
    /\ build_context # "PR"
    /\ pc' = "done"
    /\ UNCHANGED <<build_context, env, config, test_env_file, test_env_file_at_start,
                   test_images, idx, calls, exc, accessed, ret>>

\* main(): a PR build in deep-canary mode
MainDeepCanary ==
    /\ pc = "start"
    /\ build_context = "PR"
    /\ Flag("deep_canary_mode")
    /\ \E ok \in BOOLEAN :
        LET r == run_deep_canary_pr_testbuilds(RunState, test_env_file, ok)
        IN  /\ calls' = r.st.calls
            /\ exc' = r.st.exc
            /\ accessed' = r.st.accessed
            /\ test_env_file' = r.file
            /\ pc' = IF r.st.exc = "none" THEN "done" ELSE "failed"
    /\ UNCHANGED <<build_context, env, config, test_env_file_at_start, test_images, idx,
                   ret>>

\* main(): a PR build outside deep-canary mode loads the map and enters the loop
MainLoad ==
    /\ pc = "start"
    /\ build_context = "PR"
    /\ ~Flag("deep_canary_mode")
    /\ idx' = 1
    /\ pc' = IF Len(test_images) = 0 THEN "done" ELSE "loop"
    /\ UNCHANGED <<build_context, env, config, test_env_file, test_env_file_at_start,
                   test_images, calls, exc, accessed, ret>>

\* main(): one iteration of the loop
LoopBody ==
    /\ pc = "loop"
    /\ idx <= Len(test_images)
    /\ \E oks \in [1..2 -> BOOLEAN] :
        LET s == LoopIteration(RunState, test_env_file, idx, oks)
        IN  /\ calls' = s.calls
            /\ exc' = s.exc
            /\ accessed' = s.accessed
            /\ pc' = IF s.exc # "none" THEN "failed"
                     ELSE IF idx = Len(test_images) THEN "done"
                     ELSE "loop"
    /\ idx' = idx + 1
    /\ UNCHANGED <<build_context, env, config, test_env_file, test_env_file_at_start,
                   test_images, ret>>

\* a direct call of the predicate on the arguments main() would pass for the entry
CallImplemented ==
    /\ pc = "call"
    /\ ret' = [ called |-> TRUE,
                value |-> is_test_job_implemented_for_framework(
                              Join(test_images[1].images), test_images[1].test_type) ]
    /\ pc' = "returned"
    /\ UNCHANGED <<build_context, env, config, test_env_file, test_env_file_at_start,
                   test_images, idx, calls, exc, accessed>>

-----------------------------------------------------------------------------
(* Specifications *)

NoRet == [called |-> FALSE, value |-> FALSE]

\* Whole program.  Where main() never loads the map (not a PR build, or deep-canary
\* mode) maps of at most one entry stand for all maps; the flags no statement of the
\* run asks for are left off.
Init ==
    /\ build_context \in {"PR", "MAINLINE", None_}
    /\ env = TheEnv
    /\ test_env_file \in BaseFiles
    /\ test_env_file_at_start = test_env_file
    /\ \E dc \in BOOLEAN :
        /\ test_images \in MapsOver(RunTestTypes, RunImageLists,
                                    IF build_context = "PR" /\ ~dc THEN MaxTypes ELSE 1)
        /\ \E tf \in SUBSET FlagsAskedFor(test_images),
              bf \in SUBSET (IF build_context = "PR" /\ dc THEN BuilderFlags ELSE {}) :
            config = ConfigWith(tf \cup bf \cup (IF dc THEN {"deep_canary_mode"} ELSE {}))
    /\ pc = "start"
    /\ idx = 1
    /\ calls = <<>>
    /\ exc = "none"
    /\ accessed = FALSE
    /\ ret = NoRet

Next == MainNotPR \/ MainDeepCanary \/ MainLoad \/ LoopBody

Spec == Init /\ [][Next]_vars

\* A PR build outside deep-canary mode whose map has one entry, over every test type
\* and the wide image pool.
InitPair ==
    /\ build_context = "PR"
    /\ env = TheEnv
    /\ test_env_file \in {f \in BaseFiles : Len(f.content) = IF f.exists THEN 1 ELSE 0}
    /\ test_env_file_at_start = test_env_file
    /\ test_images \in { m \in MapsOver(AllTestTypes, SeqsUpTo(ImagePool, MaxImages), 1) :
                           Len(m) = 1 }
    /\ \E tf \in SUBSET (FlagsAskedFor(test_images) \cup {"heavy_instance_ec2_tests"}) :
        config = ConfigWith(tf)
    /\ pc = "start"
    /\ idx = 1
    /\ calls = <<>>
    /\ exc = "none"
    /\ accessed = FALSE
    /\ ret = NoRet

NextPair == MainLoad \/ LoopBody

SpecPair == InitPair /\ [][NextPair]_vars

\* is_test_job_implemented_for_framework alone, on every test type and image list
InitPure ==
    /\ build_context = "PR"
    /\ env = TheEnv
    /\ test_env_file = DeepCanaryFile
    /\ test_env_file_at_start = test_env_file
    /\ test_images \in { m \in MapsOver(AllTestTypes, SeqsUpTo(ImagePool, MaxImages), 1) :
                           Len(m) = 1 }
    /\ config = ConfigWith({})
    /\ pc = "call"
    /\ idx = 1
    /\ calls = <<>>
    /\ exc = "none"
    /\ accessed = FALSE
    /\ ret = NoRet

NextPure == CallImplemented

SpecPure == InitPure /\ [][NextPure]_vars

-----------------------------------------------------------------------------
(* Properties *)

BaselineNames ==
    << "FRAMEWORK", "IMAGE_TYPE", "DLC_IMAGES", "PR_NUMBER", "NIGHTLY_PR_TEST_MODE",
       "USE_SCHEDULER", "SM_EFA_TEST_INSTANCE_TYPE", "IPV6_VPC_NAME",
       "HEAVY_INSTANCE_EC2_TESTS_ENABLED", "ENABLE_IPV6_TESTING",
       "FRAMEWORK_BUILDSPEC_FILE" >>

Occurrences(name, overrides) ==
    Cardinality({ k \in 1..Len(overrides) : overrides[k].name = name })

NamesOf(overrides) == [k \in 1..Len(overrides) |-> overrides[k].name]

Finished == pc \in {"done", "failed"}

GeneralPath == build_context = "PR" /\ ~Flag("deep_canary_mode")

DeepCanaryPath == build_context = "PR" /\ Flag("deep_canary_mode")

\* the calls made from the call site at source line `site` in loop iteration i
CallsAt(site, i) == { k \in 1..Len(calls) : calls[k].site = site /\ calls[k].iter = i }

\* C1 as stated: in every start_build call the override list holds each of the eleven
\* baseline names exactly once, whatever the base file held.
C1_ExactlyOnceWhateverTheFile ==
    \A k \in 1..Len(calls) : \A n \in 1..Len(BaselineNames) :
        Occurrences(BaselineNames[n], calls[k].environmentVariablesOverride) = 1

\* C1 amended: in every start_build call the override list holds each of the eleven
\* baseline names once more than the base file read for that call holds it: none is
\* omitted, and it appears exactly once when the file has no entry of that name.
C1_BaselineOncePlusFile ==
    \A k \in 1..Len(calls) : \A n \in 1..Len(BaselineNames) :
        Occurrences(BaselineNames[n], calls[k].environmentVariablesOverride)
            = 1 + Occurrences(BaselineNames[n], test_env_file.content)

\* C1 witness: a dispatched override list with DLC_IMAGES twice, once from the file
C1_Witness ==
    \E k \in 1..Len(calls) :
        /\ Occurrences("DLC_IMAGES", calls[k].environmentVariablesOverride) = 2
        /\ Occurrences("FRAMEWORK", calls[k].environmentVariablesOverride) = 1

\* some loop entry asks for a dispatch: a main job that is enabled and implemented, or
\* an additional job whose flag holds
SomethingToDispatch ==
    \E i \in 1..Len(test_images) :
        LET t == test_images[i].test_type
            l == test_images[i].images
        IN  /\ Len(l) > 0
            /\ \/ is_test_job_enabled(t)
                    /\ is_test_job_implemented_for_framework(Join(l), t)
               \/ t = "autopr" /\ Flag("autopatch_build")
               \/ t = "sagemaker" /\ Flag("sm_local_test")

\* C2 as stated: a PR build that finds no base file ends with FileNotFoundError and
\* makes no start_build call.
C2_MissingFileAlwaysFails ==
    (build_context = "PR" /\ ~test_env_file_at_start.exists /\ Finished)
        => (exc = "FileNotFoundError" /\ calls = <<>>)

\* C2 amended: a PR build outside deep-canary mode that finds no base file makes no
\* start_build call, and ends with FileNotFoundError exactly when some entry of the map
\* asks for a dispatch (otherwise it ends successfully); in deep-canary mode a missing
\* file never gives FileNotFoundError.
C2_MissingFileFailsAtFirstDispatch ==
    (build_context = "PR" /\ ~test_env_file_at_start.exists)
        => IF Flag("deep_canary_mode")
           THEN exc # "FileNotFoundError"
           ELSE /\ calls = <<>>
                /\ exc \in {"none", "FileNotFoundError"}
                /\ Finished => (exc = "FileNotFoundError" <=> SomethingToDispatch)
                /\ Finished => (pc = "failed" <=> SomethingToDispatch)

\* C2 witness: a general-path run stopped by the missing file at its first dispatch
C2_Witness ==
    /\ GeneralPath
    /\ ~test_env_file_at_start.exists
    /\ pc = "failed"
    /\ exc = "FileNotFoundError"
    /\ calls = <<>>

\* C3: a finished deep-canary PR run has made exactly one call if a builder is
\* enabled, to the graviton job if graviton is, else to the arm64 job if arm64 is, else
\* to the plain job, and no call if none is; before it finishes it has made none.
C3_DeepCanaryDispatch ==
    DeepCanaryPath =>
        /\ ~Finished => calls = <<>>
        /\ Finished =>
            IF \E b \in BuilderFlags : Flag(b)
            THEN /\ Len(calls) = 1
                 /\ calls[1].projectName =
                        IF Flag("graviton_builder") THEN "dlc-pr-deep-canary-test-graviton"
                        ELSE IF Flag("arm64_builder") THEN "dlc-pr-deep-canary-test-arm64"
                        ELSE "dlc-pr-deep-canary-test"
            ELSE calls = <<>>

\* C3 witness: graviton and arm64 both enabled, a non-empty map, one call made
C3_Witness ==
    /\ DeepCanaryPath
    /\ Finished
    /\ Flag("graviton_builder") /\ Flag("arm64_builder")
    /\ Len(test_images) > 0
    /\ Len(calls) = 1

\* C6: outside a PR build no call is made, no exception is raised, the base file is
\* neither touched nor changed, and the run ends in "done".
C6_NonPRDoesNothing ==
    build_context # "PR" =>
        /\ calls = <<>>
        /\ exc = "none"
        /\ ~accessed
        /\ test_env_file = test_env_file_at_start
        /\ pc \in {"start", "done"}
        /\ pc = "done" \/ ENABLED Next

\* C6 witness: an unset context, deep-canary mode on, a job enabled, the file missing
C6_Witness ==
    /\ build_context = None_
    /\ pc = "done"
    /\ Flag("deep_canary_mode")
    /\ SomethingToDispatch
    /\ ~test_env_file.exists

\* C10: once the eligible deep-canary path has run, its one call carries exactly
\* TEST_TRIGGER = build project name, DEEP_CANARY_MODE = true and the eleven baseline
\* entries with DLC_IMAGES empty, whatever the file held or whether it existed; no
\* FileNotFoundError is raised and the file holds the single TEST_TRIGGER entry.
C10_DeepCanaryOverrides ==
    (DeepCanaryPath /\ Finished /\ \E b \in BuilderFlags : Flag(b)) =>
        /\ Len(calls) = 1
        /\ LET o == calls[1].environmentVariablesOverride
           IN  /\ NamesOf(o) = <<"TEST_TRIGGER", "DEEP_CANARY_MODE">> \o BaselineNames
               /\ o[1] = [name |-> "TEST_TRIGGER", value |-> env.CODEBUILD_PROJECT_NAME,
                          type |-> "PLAINTEXT"]
               /\ o[2] = [name |-> "DEEP_CANARY_MODE", value |-> "true",
                          type |-> "PLAINTEXT"]
               /\ o[5] = [name |-> "DLC_IMAGES", value |-> "", type |-> "PLAINTEXT"]
        /\ exc # "FileNotFoundError"
        /\ test_env_file =
              [ exists |-> TRUE,
                content |-> << [name |-> "TEST_TRIGGER",
                                value |-> env.CODEBUILD_PROJECT_NAME,
                                type |-> "PLAINTEXT"] >> ]

\* C10 witness: the eligible deep-canary path dispatched though the file was missing
C10_Witness ==
    /\ DeepCanaryPath
    /\ Finished
    /\ ~test_env_file_at_start.exists
    /\ Len(calls) = 1
    /\ test_env_file.exists

\* the test type is one is_test_job_enabled knows and its config flag is on
KnownAndFlagged(t) == t \in KnownTestTypes /\ Flag(FlagOfTest[t])

\* the three names a main test job of test type t can have
MainJobNames(t) ==
    { "dlc-pr-" \o t \o "-test" \o suffix : suffix \in {"", "-graviton", "-arm64"} }

\* where the i-th string of l starts in the strings of l written one after another
\* with one separator character between neighbours, counted from 0
RECURSIVE OffsetOf(_, _)
OffsetOf(l, i) == IF i = 1 THEN 0 ELSE OffsetOf(l, i - 1) + Len(l[i - 1]) + 1

\* v is the strings of the non-empty list l, in order, separated by single spaces
IsJoined(v, l) ==
    /\ Len(v) = OffsetOf(l, Len(l)) + Len(l[Len(l)])
    /\ \A i \in 1..Len(l) :
        SubSeq(v, OffsetOf(l, i) + 1, OffsetOf(l, i) + Len(l[i])) = l[i]
    /\ \A i \in 1..(Len(l) - 1) : SubSeq(v, OffsetOf(l, i + 1), OffsetOf(l, i + 1)) = " "

\* what C4 says of each entry of the map in a finished run; the main job of an entry
\* is the call its loop iteration makes from line 276
MainJobPerEntry ==
    \A i \in 1..Len(test_images) :
        LET t == test_images[i].test_type
            l == test_images[i].images
            want == /\ Len(l) > 0
                    /\ is_test_job_enabled(t)
                    /\ is_test_job_implemented_for_framework(Join(l), t)
            main == CallsAt(276, i)
        IN  /\ Cardinality(main) = IF want THEN 1 ELSE 0
            /\ \A k \in main :
                LET o == calls[k].environmentVariablesOverride
                    own == Len(o) - Len(BaselineNames) + 3
                IN  /\ calls[k].projectName \in MainJobNames(t)
                    /\ o[own].name = "DLC_IMAGES"
                    /\ IsJoined(o[own].value, l)
            /\ ~KnownAndFlagged(t) => main = {}

TheExampleMap ==
    << [test_type |-> "ec2", images |-> <<"huggingface-training:1.0">>],
       [test_type |-> "sanity", images |-> <<>>] >>

ExampleMapDispatchesNoMainJob ==
    test_images = TheExampleMap =>
        \A k \in 1..Len(calls) :
            calls[k].projectName \notin MainJobNames("ec2") \cup MainJobNames("sanity")

\* C4 as stated: in a finished general-path run whose start_build calls all succeeded,
\* the main job of each entry is dispatched once if the images are non-empty and both
\* predicates hold, and not otherwise, with DLC_IMAGES the images joined by spaces.
C4_MainJobIffEligible ==
    (GeneralPath /\ Finished /\ \A k \in 1..Len(calls) : calls[k].ok)
        => (MainJobPerEntry /\ ExampleMapDispatchesNoMainJob)

\* C4 amended: the same, for runs that also found the base file.
C4_MainJobIffEligibleWithFile ==
    (GeneralPath /\ Finished /\ test_env_file_at_start.exists
        /\ \A k \in 1..Len(calls) : calls[k].ok)
        => (MainJobPerEntry /\ ExampleMapDispatchesNoMainJob)

\* C4 witness: a finished run that dispatched a main job with two images and held back
\* the enabled ec2 job of a huggingface image
C4_Witness ==
    /\ GeneralPath
    /\ pc = "done"
    /\ \E i, j \in 1..Len(test_images) :
        /\ test_images[i].test_type = "ec2"
        /\ Flag("ec2_test")
        /\ test_images[i].images = <<"huggingface-training:1.0">>
        /\ CallsAt(276, i) = {}
        /\ Len(test_images[j].images) = 2
        /\ CallsAt(276, j) # {}

\* C5: a main test job is named dlc-pr-{test_type}-test, followed for sanity and
\* security by -graviton if an image names graviton, else by -arm64 if an image names
\* arm64, and by nothing for any other test type; an enabled sanity job with a
\* graviton image is dispatched as dlc-pr-sanity-test-graviton.
C5_JobNameSuffix ==
    /\ \A k \in 1..Len(calls) :
        calls[k].site = 276 =>
            LET t == test_images[calls[k].iter].test_type
                l == test_images[calls[k].iter].images
                graviton == \E n \in 1..Len(l) : Contains("graviton", l[n])
                arm64 == \E n \in 1..Len(l) : Contains("arm64", l[n])
                suffix == IF t \notin {"sanity", "security"} THEN ""
                          ELSE IF graviton THEN "-graviton"
                          ELSE IF arm64 THEN "-arm64"
                          ELSE ""
            IN  calls[k].projectName = "dlc-pr-" \o t \o "-test" \o suffix
    /\ ( /\ GeneralPath /\ Finished /\ test_env_file_at_start.exists
         /\ Len(test_images) = 1
         /\ test_images[1].test_type = "sanity"
         /\ Flag("sanity_test")
         /\ \E n \in 1..Len(test_images[1].images) :
                Contains("graviton", test_images[1].images[n]) )
       => (Len(calls) = 1 /\ calls[1].projectName = "dlc-pr-sanity-test-graviton")

\* C5 witness: a security job whose images name arm64 first and graviton second
C5_Witness ==
    /\ Len(calls) = 1
    /\ test_images[1].test_type = "security"
    /\ test_images[1].images = <<"pytorch-inference-arm64", "pytorch-inference-graviton">>
    /\ calls[1].projectName = "dlc-pr-security-test-graviton"

\* every step of the run before the additional job of entry i went through: the base
\* file was there and no earlier start_build call failed
NothingFailedBefore(i) ==
    /\ test_env_file_at_start.exists
    /\ \A k \in 1..Len(calls) :
        (calls[k].iter < i \/ (calls[k].iter = i /\ calls[k].site = 276)) => calls[k].ok

\* what C7 says of each entry; reached(i): what, besides flag and test type, the
\* additional job of entry i needs
AdditionalJobs(reached(_)) ==
    \A i \in 1..Len(test_images) :
        LET t == test_images[i].test_type
            l == test_images[i].images
            main == CallsAt(276, i)
            autopr == CallsAt(282, i)
            local == CallsAt(287, i)
        IN  /\ local # {} <=>
                (t = "sagemaker" /\ Len(l) > 0 /\ Flag("sm_local_test") /\ reached(i))
            /\ autopr # {} <=>
                (t = "autopr" /\ Len(l) > 0 /\ Flag("autopatch_build") /\ reached(i))
            /\ Cardinality(local) <= 1 /\ Cardinality(autopr) <= 1
            /\ \A k \in local : calls[k].projectName = "dlc-pr-sagemaker-local-test"
            /\ \A k \in autopr : calls[k].projectName = "dlc-pr-autopr"
            /\ \A m \in main : \A k \in autopr \cup local : m < k

Always(i) == TRUE

\* C7 as stated: in a finished general-path run the local-test job of a non-empty
\* "sagemaker" entry is dispatched iff the local-test flag holds, the dlc-pr-autopr job
\* of a non-empty "autopr" entry iff the autopatch predicate holds, after the main job
\* of the entry if both are dispatched, and for no other entry.
C7_AdditionalJobsIffFlag ==
    (GeneralPath /\ Finished) => AdditionalJobs(Always)

\* C7 amended: the same, where "iff the flag holds" reads "iff the flag holds, the base
\* file exists and no start_build call made earlier in the run failed".
C7_AdditionalJobsIffFlagAndReached ==
    (GeneralPath /\ Finished) => AdditionalJobs(NothingFailedBefore)

\* C7 witness: the local-test job dispatched for a sagemaker entry whose main job is
\* disabled, in a run that also dispatched a main job before it
C7_Witness ==
    /\ GeneralPath
    /\ pc = "done"
    /\ \E i \in 1..Len(test_images) :
        /\ test_images[i].test_type = "sagemaker"
        /\ ~Flag("sm_remote_test")
        /\ CallsAt(276, i) = {}
        /\ CallsAt(287, i) # {}
        /\ \E j \in 1..Len(test_images) : j < i /\ CallsAt(276, j) # {}

\* the predicate as the specification tabulates it
ReferenceImplemented(images_str, test_type) ==
    LET hf == Contains("huggingface", images_str)
        tr == Contains("trcomp", images_str)
        ag == Contains("autogluon", images_str)
    IN  ~ \/ ((hf /\ ~tr) \/ ag) /\ test_type \in {"ec2", "ec2-benchmark", "ecs", "eks"}
          \/ (hf /\ tr) /\ test_type \in {"ecs", "eks", "ec2-benchmark"}
          \/ (tr /\ ~hf) /\ test_type \in {"eks", "ec2-benchmark"}

\* C8: is_test_job_implemented_for_framework returns what the reference table gives,
\* for every image string and test type.
C8_ImplementedMatchesReference ==
    ret.called =>
        ret.value = ReferenceImplemented(Join(test_images[1].images),
                                         test_images[1].test_type)

\* C8 witness: a huggingface trcomp image list with autogluon absent passes for ec2
C8_Witness ==
    /\ ret.called
    /\ ret.value
    /\ test_images[1].test_type = "ec2"
    /\ test_images[1].images = <<"huggingface-pytorch-training", "pytorch-trcomp-training">>

\* a failed start_build call is the last call of the run and has ended it; calls follow
\* map order and no call site runs twice for an entry
FailedCallIsLast ==
    /\ \A k \in 1..Len(calls) :
        ~calls[k].ok => (k = Len(calls) /\ pc = "failed" /\ exc = "ClientError")
    /\ exc = "ClientError" => (Len(calls) > 0 /\ ~calls[Len(calls)].ok /\ pc = "failed")
    /\ \A j, k \in 1..Len(calls) :
        j < k => \/ calls[j].iter < calls[k].iter
                 \/ calls[j].iter = calls[k].iter /\ calls[j].site < calls[k].site

\* C9: a failed start_build call is neither retried nor caught: it ends the run in
\* failure, no call follows it, and the calls made before it stay made.
C9_FailureAbortsTheRun ==
    /\ []FailedCallIsLast
    /\ [][ /\ Len(calls') >= Len(calls)
           /\ SubSeq(calls', 1, Len(calls)) = calls
           /\ pc = "failed" => calls' = calls ]_vars

\* C9 witness: the second call of a run failed with an entry of the map still to come
C9_Witness ==
    /\ pc = "failed"
    /\ exc = "ClientError"
    /\ Len(calls) = 2
    /\ calls[1].ok
    /\ calls[2].iter < Len(test_images)
    /\ Len(test_images[Len(test_images)].images) > 0
    /\ is_test_job_enabled(test_images[Len(test_images)].test_type)

====
